---- MODULE Spec2Model ----
(***************************************************************************)
(* A model of crates/raw/src/cr2.rs: the CR2 header parser, the tag        *)
(* decoder, the directory walker of open() and the byte decoders.          *)
(*                                                                         *)
(* A file is a sequence of bytes.  The reads of the program are modelled   *)
(* as reads of a regular file: a read returns the bytes that are there,    *)
(* fewer than asked at the end of the file, and leaves the rest of the     *)
(* (zeroed) buffer untouched.  Seeks and reads of the open file do not     *)
(* fail; opening a path succeeds exactly when the path names the file.     *)
(*                                                                         *)
(* Integers of 1 and 2 bytes are numbers.  Integers of 4 and 8 bytes are   *)
(* sequences of 16-bit limbs, least significant first (TLC's numbers are   *)
(* 32-bit); LimbsToInt gives the number of a 4-byte value below 2^31.      *)
(***************************************************************************)
EXTENDS Integers, Sequences, FiniteSets, TLC

\* ------------------------------------------------------------------ bounds
\* directory slots of the generated files
NumDirs == 2
\* loop iterations the walker may take beyond NumDirs before the model stops
ExtraIter == 2
\* longest byte window handed to the byte decoders
MaxWin == 9

VARIABLES
    file,         \* the bytes of the file at Path
    pc,           \* where open() is: "header", "loop", "tags", "done", "panicked", "conv", "convdone"
    result,       \* what open() returned
    file_name,    \* RawImage.file_name
    byte_order,   \* RawImage.byte_order
    raw_offset,   \* RawImage.raw_offset
    ifd_offsets,  \* RawImage.ifd_offsets
    tags,         \* RawImage.tags
    i,            \* the loop index of open()
    fpos,         \* the cursor of the File f opened by open()
    pos,          \* read_ifd's pos
    n,            \* read_ifd's tag count n
    k,            \* tags of the current directory already handed to read_tag
    tagres,       \* what the last read_tag did and returned
    tag_failed,   \* some read_tag returned Err (the value read_ifd drops)
    visited,      \* the offsets read_ifd was entered with, in order
    win,          \* the byte window given to the byte decoders
    conv          \* the results of the ten conversions on win

vars == <<file, pc, result, file_name, byte_order, raw_offset, ifd_offsets, tags,
          i, fpos, pos, n, k, tagres, tag_failed, visited, win, conv>>

Byte == 0..255

\* ------------------------------------------------------------ byte decoder
None == <<>>
Some(v) == <<v>>
IsSome(o) == Len(o) = 1
Unwrap(o) == o[1]

Reverse(w) == [j \in 1..Len(w) |-> w[Len(w) + 1 - j]]

\* The build target's byte order: mem::transmute reads the array in the
\* order of the machine.  The targets the crate is built for are
\* little-endian.
TargetLittleEndian == TRUE

\* the bytes of a transmuted array, least significant first
NativeBytes(w) == IF TargetLittleEndian THEN w ELSE Reverse(w)

\* an unsigned number of one or two bytes
Nat16(b) == IF Len(b) = 1 THEN b[1] ELSE b[1] + 256 * b[2]

\* 16-bit limbs, least significant first, of 2, 4 or 8 bytes
Limbs(b) == [j \in 1..(Len(b) \div 2) |-> b[2 * j - 1] + 256 * b[2 * j]]

\* the same limbs with the top one read as two's complement
SignedTop(l) ==
    [j \in 1..Len(l) |-> IF j = Len(l) /\ l[j] >= 32768 THEN l[j] - 65536 ELSE l[j]]

LimbsToInt(l) == l[1] + 65536 * l[2]

to_u8(w) == IF Len(w) = 1 THEN Some(w[1]) ELSE None

to_u16(w) == IF Len(w) = 2 THEN Some(Nat16(NativeBytes(w))) ELSE None

to_u32(w) == IF Len(w) = 4 THEN Some(Limbs(NativeBytes(w))) ELSE None

to_i8(w) ==
    IF Len(w) = 1 THEN Some(IF w[1] >= 128 THEN w[1] - 256 ELSE w[1]) ELSE None

to_i16(w) ==
    IF Len(w) = 2
    THEN LET u == Nat16(NativeBytes(w)) IN Some(IF u >= 32768 THEN u - 65536 ELSE u)
    ELSE None

to_i32(w) == IF Len(w) = 4 THEN Some(SignedTop(Limbs(NativeBytes(w)))) ELSE None

to_u64_AtLeast(w) ==
    IF Len(w) >= 8 THEN Some(Limbs(NativeBytes(SubSeq(w, 1, 8)))) ELSE None

to_u64(w) == IF Len(w) = 8 THEN Some(Limbs(NativeBytes(w))) ELSE None

to_i64(w) == IF Len(w) = 8 THEN Some(SignedTop(Limbs(NativeBytes(w)))) ELSE None

\* a float is its bit pattern
to_f32(w) == IF Len(w) = 4 THEN Some(Limbs(NativeBytes(w))) ELSE None

to_f64(w) == IF Len(w) = 8 THEN Some(Limbs(NativeBytes(w))) ELSE None

\* --------------------------------------------------------------- the file
\* the path main() hands to open()
Path == "data/test.cr2"

Zeros(len) == [j \in 1..len |-> 0]

\* f.read(&mut buf) at cursor `at` (0-based) into a zeroed buffer of `len`
\* bytes: the buffer afterwards and the number of bytes read
Read(f, at, len) ==
    LET avail == IF at >= Len(f) THEN 0 ELSE Len(f) - at
        got == IF avail < len THEN avail ELSE len
    IN [buf |-> [j \in 1..len |-> IF j <= got THEN f[at + j] ELSE 0], got |-> got]

\* File::open(name): the only file there is is the one at Path
FileOpen(name) == name = Path

\* ------------------------------------------------------------- the errors
Ok == [kind |-> "Ok", msg |-> "", arg |-> <<>>]
NoResult == [kind |-> "none", msg |-> "", arg |-> <<>>]
Err(kind, msg, arg) == [kind |-> kind, msg |-> msg, arg |-> arg]

\* ------------------------------------------------------------- the header
\* str::from_utf8 on a window of two bytes: two ASCII bytes, or one
\* two-byte sequence (a lead byte C2..DF and a continuation byte 80..BF)
Utf8Valid2_AsciiOnly(b) == b[1] < 128 /\ b[2] < 128

Utf8Valid2(b) ==
    \/ b[1] < 128 /\ b[2] < 128
    \/ b[1] \in 194..223 /\ b[2] \in 128..191

II == <<73, 73>>
MM == <<77, 77>>
CR == <<67, 82>>

\* read_header: the error it returns (Ok when none) and the fields of the
\* RawImage as it leaves them
HeaderResult(f) ==
    LET head == Read(f, 0, 16).buf
        bo == SubSeq(head, 1, 2)
        cm == SubSeq(head, 9, 10)
        cmaj == head[11]
        cmin == head[12]
        first == LimbsToInt(Unwrap(to_u32(SubSeq(head, 5, 8))))
        raw == LimbsToInt(Unwrap(to_u32(SubSeq(head, 13, 16))))
        blank == [err |-> Ok, byte_order |-> "Intel", ifd_offsets |-> <<>>, raw_offset |-> 0]
    IN  IF ~Utf8Valid2(bo)
        THEN [blank EXCEPT !.err = Err("Utf8", "", bo)]
        ELSE IF bo # II /\ bo # MM
        THEN [blank EXCEPT !.err = Err("FileFormat", "Unknown byte order", bo)]
        ELSE IF bo # II
        THEN [blank EXCEPT !.err = Err("NotImplemented", "Only Intel Byte Order supported!", <<>>),
                           !.byte_order = "Motorola"]
        ELSE IF Unwrap(to_u16(SubSeq(head, 3, 4))) # 42
        THEN [blank EXCEPT !.err = Err("FileFormat", "Tiff Magic mismatch", <<>>)]
        ELSE IF ~Utf8Valid2(cm)
        THEN [blank EXCEPT !.err = Err("Utf8", "", cm), !.ifd_offsets = <<first>>]
        ELSE IF cm # CR
        THEN [blank EXCEPT !.err = Err("FileFormat", "CR2 Magic mismatch", <<>>),
                           !.ifd_offsets = <<first>>]
        ELSE IF cmaj # 2 /\ cmin # 0
        THEN [blank EXCEPT !.err = Err("NotImplemented", "CR2 Version not supported",
                                       <<cmaj, cmin>>),
                           !.ifd_offsets = <<first>>]
        ELSE [blank EXCEPT !.ifd_offsets = <<first>>, !.raw_offset = raw]

\* ---------------------------------------------------------------- the tags
TagName(tagid) ==
    CASE tagid = 259 -> "compression"
      [] tagid = 273 -> "strip_offset"
      [] tagid = 279 -> "strip_byte_count"
      [] tagid = 50752 -> "strip_cr2_slice"
      [] OTHER -> "???"

ValSize(tagtype) ==
    CASE tagtype \in {1, 2, 6, 7} -> 1
      [] tagtype \in {3, 8} -> 2
      [] tagtype \in {4, 9, 11} -> 4
      [] tagtype \in {5, 10, 12} -> 8
      [] OTHER -> 0

\* data.windows(size), size > 0: every run of `size` consecutive bytes
Windows(data, size) ==
    [j \in 1..(IF Len(data) >= size THEN Len(data) - size + 1 ELSE 0) |->
        SubSeq(data, j, j + size - 1)]

\* u8 and u16 `as u32`, i8 and i16 `as i32`, as limbs
Widen(v) == <<v, 0>>
SignWiden(v) == IF v < 0 THEN <<v + 65536, -1>> ELSE <<v, 0>>

\* one arm of the match of read_tag's loop, for the types that push on d;
\* a float is kept as the bit pattern it was read from
TagDatum(tagtype, w) ==
    CASE tagtype \in {1, 7} -> [kind |-> "Unsigned", v |-> Widen(Unwrap(to_u8(w)))]
      [] tagtype = 3 -> [kind |-> "Unsigned", v |-> Widen(Unwrap(to_u16(w)))]
      [] tagtype = 4 -> [kind |-> "Unsigned", v |-> Unwrap(to_u32(w))]
      [] tagtype = 5 -> [kind |-> "U64", v |-> Unwrap(to_u64(w))]
      [] tagtype = 6 -> [kind |-> "Signed", v |-> SignWiden(Unwrap(to_i8(w)))]
      [] tagtype = 8 -> [kind |-> "Signed", v |-> SignWiden(Unwrap(to_i16(w)))]
      [] tagtype = 9 -> [kind |-> "Signed", v |-> Unwrap(to_i32(w))]
      [] tagtype = 10 -> [kind |-> "I64", v |-> Unwrap(to_i64(w))]
      [] tagtype = 11 -> [kind |-> "Float", v |-> Unwrap(to_f32(w))]
      [] tagtype = 12 -> [kind |-> "Float", v |-> Unwrap(to_f64(w))]

NoTag ==
    [outcome |-> "none", err |-> NoResult, got |-> 0, tagid |-> 0, tagtype |-> 0,
     valcount |-> 0, field |-> <<>>, tagname |-> "", valsize |-> 0,
     opens |-> <<>>, seeks |-> <<>>, reads |-> <<>>, data |-> <<>>,
     d |-> <<>>, s |-> <<>>]

\* read_tag with the cursor of f at `at` and RawImage.file_name = fname:
\* what it returns (outcome "Ok", "Err" with err, or "Panic"), the bytes it
\* takes from f, the opens, seeks and reads it makes besides, and its d and s
\* as they are when it ends
TagResult(f, fname, at) ==
    LET rd == Read(f, at, 12)
        tag == rd.buf
        tagid == Unwrap(to_u16(SubSeq(tag, 1, 2)))
        tagtype == Unwrap(to_u16(SubSeq(tag, 3, 4)))
        valcount == LimbsToInt(Unwrap(to_u32(SubSeq(tag, 5, 8))))
        field == SubSeq(tag, 9, 12)
        valsize == ValSize(tagtype)
        outofline == valsize * valcount > 4
        offset == LimbsToInt(Unwrap(to_u32(field)))
        opened == FileOpen(fname)
        data == IF outofline /\ opened THEN Read(f, offset, valsize * valcount).buf ELSE field
        base == [NoTag EXCEPT !.got = rd.got, !.tagid = tagid, !.tagtype = tagtype,
                              !.valcount = valcount, !.field = field,
                              !.tagname = TagName(tagid), !.valsize = valsize,
                              !.opens = IF outofline THEN <<fname>> ELSE <<>>,
                              !.seeks = IF outofline /\ opened THEN <<offset>> ELSE <<>>,
                              !.reads = IF outofline /\ opened
                                        THEN <<[at |-> offset, len |-> valsize * valcount]>>
                                        ELSE <<>>,
                              !.data = data]
    IN  IF outofline /\ ~opened
        THEN [base EXCEPT !.outcome = "Err", !.err = Err("Io", "open", <<>>)]
        ELSE IF valsize = 0
        THEN [base EXCEPT !.outcome = "Panic"]
        ELSE LET ws == Windows(data, valsize)
             IN  IF Len(ws) > 0 /\ tagtype \notin 1..12
                 THEN [base EXCEPT !.outcome = "Err", !.err = Err("TypeError", "", <<tagtype>>)]
                 ELSE [base EXCEPT !.outcome = "Ok",
                                   !.d = IF tagtype = 2 THEN <<>>
                                         ELSE [j \in 1..Len(ws) |-> TagDatum(tagtype, ws[j])],
                                   !.s = IF tagtype = 2
                                         THEN [j \in 1..Len(ws) |-> Unwrap(to_u8(ws[j]))]
                                         ELSE <<>>]

\* ------------------------------------------------------ the files explored
LE16(x) == <<x % 256, x \div 256>>
LE32(x) == <<x % 256, (x \div 256) % 256, (x \div 65536) % 256, x \div 16777216>>

RECURSIVE Flatten(_)
Flatten(ss) == IF ss = <<>> THEN <<>> ELSE Head(ss) \o Flatten(Tail(ss))

MkHeader(bo, magic, first, cm, cmaj, cmin, raw) ==
    bo \o LE16(magic) \o LE32(first) \o cm \o <<cmaj, cmin>> \o LE32(raw)

MkTag(tagid, tagtype, valcount, field) ==
    LE16(tagid) \o LE16(tagtype) \o LE32(valcount) \o field

\* every directory of a generated file lies in a slot of its own, wide enough
\* for two tag records
SlotLen == 2 + 12 * 2 + 4
DirOffset(j) == 16 + (j - 1) * SlotLen
DataOffset(nd) == 16 + nd * SlotLen
\* an offset past the end of every generated file
FarOffset(nd) == DataOffset(nd) + 64

MkDir(tl, next) ==
    LET body == LE16(Len(tl)) \o Flatten(tl) \o LE32(next)
    IN body \o Zeros(SlotLen - Len(body))

\* the block out-of-line values point to: "Canon", a terminator and 2 more
OutOfLine == <<67, 97, 110, 111, 110, 0, 1, 2>>

MkFile(header, dirs) ==
    header \o Flatten([j \in 1..Len(dirs) |-> MkDir(dirs[j].tags, dirs[j].next)]) \o OutOfLine

RawStart == 16 * 1024
GoodHeader(first) == MkHeader(II, 42, first, CR, 2, 0, RawStart)

\* headers of every kind in front of one empty directory
ByteOrders == {II, MM, <<88, 88>>, <<0, 0>>, <<195, 169>>, <<255, 254>>, <<73, 200>>}
HeaderFiles ==
    {MkFile(MkHeader(bo, magic, DirOffset(1), cm, cmaj, cmin, RawStart),
            <<[tags |-> <<>>, next |-> 0]>>) :
        bo \in ByteOrders, magic \in {42, 43}, cm \in {CR, <<88, 88>>, <<255, 67>>},
        cmaj \in {1, 2, 3}, cmin \in {0, 1}}

\* files cut short: no byte at all, and a header with nothing behind it
ShortFiles == {<<>>, GoodHeader(16)}

\* one directory with one tag of every type code 0..13
Fields(nd) == {LE32(DataOffset(nd)), <<1, 0, 0, 0>>, <<255, 128, 3, 66>>}
TagFiles ==
    {MkFile(GoodHeader(DirOffset(1)),
            <<[tags |-> <<MkTag(tagid, tagtype, valcount, field)>>, next |-> 0]>>) :
        tagid \in {259, 1}, tagtype \in 0..13, valcount \in {0, 1, 2, 4, 5},
        field \in Fields(1)}

\* NumDirs directories chained in every way, each with one of three tag lists
TagLists(nd) ==
    {<<>>,
     <<MkTag(273, 3, 2, <<7, 0, 9, 0>>), MkTag(1, 2, 5, LE32(DataOffset(nd)))>>,
     <<MkTag(279, 13, 1, <<1, 0, 0, 0>>)>>}
Targets(nd) == {0, FarOffset(nd)} \cup {DirOffset(j) : j \in 1..nd}
ChainFiles ==
    {MkFile(GoodHeader(first), dirs) :
        first \in Targets(NumDirs) \ {0},
        dirs \in [1..NumDirs -> [tags : TagLists(NumDirs), next : Targets(NumDirs)]]}

Files == HeaderFiles \cup ShortFiles \cup TagFiles \cup ChainFiles

\* --------------------------------------------------------------- open()
MaxIter == NumDirs + ExtraIter

Blank ==
    /\ pc = "header"
    /\ result = NoResult
    /\ file_name = ""
    /\ byte_order = "Intel"
    /\ raw_offset = 0
    /\ ifd_offsets = <<>>
    /\ tags = {}
    /\ i = 0
    /\ fpos = 0
    /\ pos = 0
    /\ n = 0
    /\ k = 0
    /\ tagres = NoTag
    /\ tag_failed = FALSE
    /\ visited = <<>>
    /\ win = <<>>
    /\ conv = <<>>

Init == file \in Files /\ Blank

\* open(), lines 74..77: the file is opened, the RawImage is its default,
\* read_header runs; its error is returned by try!
ReadHeader ==
    /\ pc = "header"
    /\ LET h == HeaderResult(file)
       IN  /\ byte_order' = h.byte_order
           /\ ifd_offsets' = h.ifd_offsets
           /\ raw_offset' = h.raw_offset
           /\ fpos' = Read(file, 0, 16).got
           /\ IF h.err = Ok
              THEN pc' = "loop" /\ result' = result
              ELSE pc' = "done" /\ result' = h.err
    /\ UNCHANGED <<file, file_name, tags, i, pos, n, k, tagres, tag_failed, visited, win, conv>>

\* the loop test holds; read_ifd seeks to its directory and reads the count
ReadIfdBegin ==
    /\ pc = "loop"
    /\ Len(ifd_offsets) > i
    /\ i < MaxIter
    /\ LET at == ifd_offsets[i + 1]
           na == Read(file, at, 2)
       IN  /\ pos' = at
           /\ n' = Unwrap(to_u16(na.buf))
           /\ fpos' = at + na.got
           /\ visited' = Append(visited, at)
    /\ k' = 0
    /\ pc' = "tags"
    /\ UNCHANGED <<file, result, file_name, byte_order, raw_offset, ifd_offsets, tags,
                   i, tagres, tag_failed, win, conv>>

\* one turn of `for n in 0..n { self.read_tag(f); }`: the Result is dropped
ReadTag ==
    /\ pc = "tags"
    /\ k < n
    /\ LET t == TagResult(file, file_name, fpos)
       IN  /\ tagres' = t
           /\ fpos' = fpos + t.got
           /\ tag_failed' = (tag_failed \/ t.outcome = "Err")
           /\ pc' = IF t.outcome = "Panic" THEN "panicked" ELSE "tags"
    /\ k' = k + 1
    /\ UNCHANGED <<file, result, file_name, byte_order, raw_offset, ifd_offsets, tags,
                   i, pos, n, visited, win, conv>>

\* pos = pos + n as u64 * 12 + 2
NextPointerAt_NoCount(p, cnt) == p + cnt * 12

NextPointerAt(p, cnt) == p + cnt * 12 + 2

\* if io != 0 { self.ifd_offsets.push(io) }
PushNext_Unseen(offs, io) ==
    IF io # <<0, 0>> /\ \A j \in 1..Len(offs) : offs[j] # LimbsToInt(io)
    THEN Append(offs, LimbsToInt(io))
    ELSE offs

PushNext(offs, io) == IF io # <<0, 0>> THEN Append(offs, LimbsToInt(io)) ELSE offs

\* the rest of read_ifd, and i += 1
ReadIfdEnd ==
    /\ pc = "tags"
    /\ k = n
    /\ LET at == NextPointerAt(pos, n)
           ioa == Read(file, at, 4)
           io == Unwrap(to_u32(ioa.buf))
       IN  /\ pos' = at
           /\ fpos' = at + ioa.got
           /\ ifd_offsets' = PushNext(ifd_offsets, io)
    /\ i' = i + 1
    /\ pc' = "loop"
    /\ UNCHANGED <<file, result, file_name, byte_order, raw_offset, tags, n, k, tagres,
                   tag_failed, visited, win, conv>>

\* the loop test fails: file_name is set and the RawImage returned
OpenReturn ==
    /\ pc = "loop"
    /\ ~(Len(ifd_offsets) > i)
    /\ file_name' = Path
    /\ result' = Ok
    /\ pc' = "done"
    /\ UNCHANGED <<file, byte_order, raw_offset, ifd_offsets, tags, i, fpos, pos, n, k,
                   tagres, tag_failed, visited, win, conv>>

Next == ReadHeader \/ ReadIfdBegin \/ ReadTag \/ ReadIfdEnd \/ OpenReturn

Spec == Init /\ [][Next]_vars

\* ------------------------------------------------- the header on its own
\* every pair of bytes in front of an otherwise good header
ByteOrderFiles ==
    {MkFile(MkHeader(<<a, b>>, 42, DirOffset(1), CR, 2, 0, RawStart),
            <<[tags |-> <<>>, next |-> 0]>>) : a \in Byte, b \in Byte}

InitByteOrder == file \in ByteOrderFiles /\ Blank

SpecByteOrder == InitByteOrder /\ [][ReadHeader]_vars

\* ------------------------------------------- the byte decoders on their own
ConvBytes == {0, 1, 255}
Windows0 == UNION {[1..m -> ConvBytes] : m \in 0..MaxWin}

InitConv ==
    /\ win \in Windows0
    /\ file = <<>>
    /\ pc = "conv"
    /\ result = NoResult
    /\ file_name = ""
    /\ byte_order = "Intel"
    /\ raw_offset = 0
    /\ ifd_offsets = <<>>
    /\ tags = {}
    /\ i = 0
    /\ fpos = 0
    /\ pos = 0
    /\ n = 0
    /\ k = 0
    /\ tagres = NoTag
    /\ tag_failed = FALSE
    /\ visited = <<>>
    /\ conv = <<>>

\* the ten conversions applied to the window
Convert ==
    /\ pc = "conv"
    /\ conv' = [u8 |-> to_u8(win), u16 |-> to_u16(win), u32 |-> to_u32(win),
                u64 |-> to_u64(win), i8 |-> to_i8(win), i16 |-> to_i16(win),
                i32 |-> to_i32(win), i64 |-> to_i64(win), f32 |-> to_f32(win),
                f64 |-> to_f64(win)]
    /\ pc' = "convdone"
    /\ UNCHANGED <<file, result, file_name, byte_order, raw_offset, ifd_offsets, tags,
                   i, fpos, pos, n, k, tagres, tag_failed, visited, win>>

SpecConv == InitConv /\ [][Convert]_vars

\* ================================================================ claims
\* what the claims say of a file, read off its bytes
ByteAt(f, at) == IF at < Len(f) THEN f[at + 1] ELSE 0
U16At(f, at) == ByteAt(f, at) + 256 * ByteAt(f, at + 1)
U32At(f, at) == U16At(f, at) + 65536 * U16At(f, at + 2)
Marker(f) == <<ByteAt(f, 0), ByteAt(f, 1)>>
HeaderRead == pc # "header" /\ pc # "conv" /\ pc # "convdone"

\* a pair of bytes that is text: two bytes of ASCII, or the two bytes of one
\* character U+0080..U+07FF
IsText2(b) ==
    \/ b[1] <= 127 /\ b[2] <= 127
    \/ b[1] >= 192 + 2 /\ b[1] < 224 /\ b[2] >= 128 /\ b[2] < 192

\* open() returned one of the three errors of the byte-order check
ByteOrderRejected ==
    /\ pc = "done"
    /\ \/ result.msg \in {"Unknown byte order", "Only Intel Byte Order supported!"}
       \/ result.kind = "Utf8" /\ result.arg = Marker(file)

\* C1 as stated: after read_header, "II" lets parsing continue, "MM" gives
\* NotImplemented, and every other pair of first bytes gives FileFormat.
C1_Original ==
    HeaderRead =>
        /\ Marker(file) = II => ~ByteOrderRejected
        /\ Marker(file) = MM => pc = "done" /\ result.kind = "NotImplemented"
        /\ Marker(file) \notin {II, MM} => pc = "done" /\ result.kind = "FileFormat"

\* C1 amended: after read_header, "II" lets parsing continue, "MM" gives
\* NotImplemented, every other pair of first bytes that is valid UTF-8 gives
\* FileFormat naming the pair, and every pair that is not valid UTF-8 gives
\* a Utf8 error.
C1_Amended ==
    HeaderRead =>
        /\ Marker(file) = II => ~ByteOrderRejected
        /\ Marker(file) = MM => pc = "done" /\ result.kind = "NotImplemented"
        /\ Marker(file) \notin {II, MM} /\ IsText2(Marker(file)) =>
               pc = "done" /\ result.kind = "FileFormat" /\ result.arg = Marker(file)
        /\ ~IsText2(Marker(file)) => pc = "done" /\ result.kind = "Utf8"

\* read_header has rejected a first pair that is not text
C1_Witness ==
    pc = "done" /\ Marker(file) = <<255, 254>> /\ result.kind = "Utf8"

\* the header passes the byte-order, TIFF-magic and "CR" checks
PassesMagic(f) ==
    /\ Len(f) >= 16
    /\ Marker(f) = II
    /\ U16At(f, 2) = 42
    /\ <<ByteAt(f, 8), ByteAt(f, 9)>> = CR

\* C2 as stated: for a header that passes the byte-order, magic and "CR"
\* checks, read_header succeeds only for version 2.0 and gives
\* NotImplemented carrying the version for every other pair.
C2_Claim ==
    HeaderRead /\ PassesMagic(file) =>
        IF ByteAt(file, 10) = 2 /\ ByteAt(file, 11) = 0
        THEN result.kind \in {"none", "Ok"}
        ELSE /\ pc = "done"
             /\ result.kind = "NotImplemented"
             /\ result.arg = <<ByteAt(file, 10), ByteAt(file, 11)>>

\* the byte of weight 256^(j-1) of a number of one or two bytes, and of a
\* value in limbs (two's complement when negative)
ByteOfInt(x, j) == (((x + 65536) % 65536) \div (IF j = 1 THEN 1 ELSE 256)) % 256
ByteOfLimbs(v, j) == ByteOfInt(v[(j + 1) \div 2], 2 - (j % 2))

\* C10: each conversion gives a value exactly when the window has the size
\* of its type, and the integer it gives is the little-endian composition
\* of the window (two's complement for the signed types).
C10_Exact ==
    pc = "convdone" =>
        /\ IsSome(conv.u8) <=> Len(win) = 1
        /\ IsSome(conv.i8) <=> Len(win) = 1
        /\ IsSome(conv.u16) <=> Len(win) = 2
        /\ IsSome(conv.i16) <=> Len(win) = 2
        /\ IsSome(conv.u32) <=> Len(win) = 4
        /\ IsSome(conv.i32) <=> Len(win) = 4
        /\ IsSome(conv.f32) <=> Len(win) = 4
        /\ IsSome(conv.u64) <=> Len(win) = 8
        /\ IsSome(conv.i64) <=> Len(win) = 8
        /\ IsSome(conv.f64) <=> Len(win) = 8
        /\ Len(win) = 1 =>
              /\ Unwrap(conv.u8) = win[1]
              /\ Unwrap(conv.i8) = win[1] - (IF win[1] > 127 THEN 256 ELSE 0)
        /\ Len(win) = 2 =>
              /\ Unwrap(conv.u16) >= 0
              /\ (Unwrap(conv.i16) < 0) <=> (win[2] > 127)
              /\ \A j \in 1..2 : /\ ByteOfInt(Unwrap(conv.u16), j) = win[j]
                                 /\ ByteOfInt(Unwrap(conv.i16), j) = win[j]
        /\ Len(win) = 4 =>
              /\ Unwrap(conv.u32)[2] >= 0
              /\ (Unwrap(conv.i32)[2] < 0) <=> (win[4] > 127)
              /\ \A j \in 1..4 : /\ ByteOfLimbs(Unwrap(conv.u32), j) = win[j]
                                 /\ ByteOfLimbs(Unwrap(conv.i32), j) = win[j]
        /\ Len(win) = 8 =>
              /\ Unwrap(conv.u64)[4] >= 0
              /\ (Unwrap(conv.i64)[4] < 0) <=> (win[8] > 127)
              /\ \A j \in 1..8 : /\ ByteOfLimbs(Unwrap(conv.u64), j) = win[j]
                                 /\ ByteOfLimbs(Unwrap(conv.i64), j) = win[j]

\* the conversions have run on a window one byte longer than the widest
\* type, and on an exact one with bytes that tell the byte orders apart
C10_Witness ==
    /\ pc = "convdone"
    /\ \/ Len(win) = 9
       \/ win = <<1, 0, 0, 0, 0, 0, 0, 255>> /\ IsSome(conv.i64)

\* the header the specification calls valid
ValidHeader(f) == PassesMagic(f) /\ ByteAt(f, 10) = 2 /\ ByteAt(f, 11) = 0

\* the directory at `at`: its tag count, the type code of its tag t
\* (0-based), and its next-directory pointer
DirCount(f, at) == U16At(f, at)
DirTagType(f, at, t) == U16At(f, at + 2 + 12 * t + 2)
DirNext(f, at) == U32At(f, at + 2 + 12 * DirCount(f, at))

\* the offsets met from `at` on by following nonzero next pointers, `fuel`
\* of them at most after the first
RECURSIVE Follow(_, _, _)
Follow(f, at, fuel) ==
    IF fuel = 0 \/ DirNext(f, at) = 0
    THEN <<at>>
    ELSE <<at>> \o Follow(f, DirNext(f, at), fuel - 1)

Fuel == MaxIter + 1
Chain(f) == Follow(f, U32At(f, 4), Fuel)
Repeats(q) == \E a, b \in 1..Len(q) : a < b /\ q[a] = q[b]
\* the chain reaches a 0 pointer without visiting an offset twice
EndsUnrepeated(f) ==
    LET c == Chain(f) IN ~Repeats(c) /\ DirNext(f, c[Len(c)]) = 0
\* the chain comes back to an offset it has visited
Cyclic(f) == Repeats(Chain(f))
OnlyKnownTypes(f) ==
    LET c == Chain(f)
    IN  \A j \in 1..Len(c) : \A t \in 0..(DirCount(f, c[j]) - 1) :
            DirTagType(f, c[j], t) \in 1..12

C3_Pre == ValidHeader(file) /\ EndsUnrepeated(file) /\ OnlyKnownTypes(file)

\* some step of open() can be taken (ENABLED Next, spelled out)
CanStep ==
    \/ pc = "header"
    \/ pc = "loop" /\ (Len(ifd_offsets) > i => i < MaxIter)
    \/ pc = "tags" /\ k <= n

\* C3: for a valid header, tags of types 1..12 only and a chain that ends
\* without a repeat, open() ends with Ok, the directory list is the chain
\* in discovery order, and each directory was visited once, in that order:
\* open() does not panic, takes a step as long as it has not returned,
\* reads at each turn of its loop the next directory of the chain, takes no
\* more turns than the chain has directories, and returns Ok with the
\* directory list and the directories read both equal to the chain.
C3_Chain ==
    C3_Pre /\ HeaderRead =>
        LET c == Chain(file)
        IN  /\ pc # "panicked"
            /\ pc # "done" => CanStep
            /\ i <= Len(c)
            /\ k <= n
            /\ Len(ifd_offsets) <= Len(c)
            /\ ifd_offsets = SubSeq(c, 1, Len(ifd_offsets))
            /\ visited = SubSeq(c, 1, IF pc = "tags" THEN i + 1 ELSE i)
            /\ pc = "done" => /\ result = Ok
                              /\ ifd_offsets = c
                              /\ visited = c

\* open() has returned Ok on a chain of at least two directories, one of
\* them carrying tags
C3_Witness ==
    /\ C3_Pre
    /\ pc = "done"
    /\ result = Ok
    /\ Len(ifd_offsets) >= 2
    /\ \E j \in 1..Len(ifd_offsets) : DirCount(file, ifd_offsets[j]) >= 1

\* the tag records of the directories open() went through, as (offset of
\* the directory, index of the record)
VisitedTags ==
    UNION {{<<visited[j], t>> : t \in 0..(DirCount(file, visited[j]) - 1)} :
               j \in 1..Len(visited)}
Decoded(dt) == TagResult(file, "", dt[1] + 2 + 12 * dt[2])

\* C4 as stated: after open() returns Ok, the tag mapping holds an entry,
\* under its name, for every tag record of every visited directory that was
\* decoded successfully.
C4_Claim ==
    pc = "done" /\ result = Ok =>
        \A dt \in VisitedTags :
            Decoded(dt).outcome = "Ok" =>
                \E e \in tags :
                    /\ e.name = Decoded(dt).tagname
                    /\ e.value = IF Decoded(dt).tagtype = 2 THEN Decoded(dt).s
                                 ELSE Decoded(dt).d

TagRead == tagres.outcome # "none"

\* C5 as stated: for a tag record whose type code is outside 1..12 read_tag
\* returns Err(TypeError(code)) and does not abort the process; for a code
\* in 1..12 the element size is one of 1, 2, 4, 8.
C5_Claim ==
    TagRead =>
        IF tagres.tagtype \in 1..12
        THEN tagres.valsize \in {1, 2, 4, 8}
        ELSE /\ tagres.outcome = "Err"
             /\ tagres.err.kind = "TypeError"
             /\ tagres.err.arg = <<tagres.tagtype>>
             /\ pc # "panicked"

\* the bytes of the value of the tag last read: the inline field, or the
\* block the field points to
ValueBytes ==
    LET total == tagres.valsize * tagres.valcount
    IN  IF total <= 4 THEN tagres.field
        ELSE [j \in 1..total |-> ByteAt(file, U32At(tagres.field, 0) + j - 1)]
Chunk(q, size, e) == SubSeq(q, (e - 1) * size + 1, e * size)

\* C6 as stated: for a tag of type 1..12 with count c >= 1, read_tag
\* decodes exactly c elements, element e from the e-th chunk of the value
\* bytes (c characters for type 2).
C6_Claim ==
    TagRead /\ tagres.tagtype \in 1..12 /\ tagres.valcount >= 1 =>
        /\ tagres.outcome = "Ok"
        /\ IF tagres.tagtype = 2
           THEN /\ Len(tagres.s) = tagres.valcount
                /\ \A e \in 1..tagres.valcount : tagres.s[e] = ValueBytes[e]
           ELSE /\ Len(tagres.d) = tagres.valcount
                /\ \A e \in 1..tagres.valcount :
                       tagres.d[e] =
                           TagDatum(tagres.tagtype, Chunk(ValueBytes, tagres.valsize, e))

\* C7 as stated: a tag with element_size * count <= 4 is decoded with no
\* further open, seek or read; a tag with element_size * count > 4 makes
\* exactly one read of that many bytes, on the file given to open(), at the
\* offset held in the field.
C7_Claim ==
    TagRead =>
        IF tagres.valsize * tagres.valcount <= 4
        THEN tagres.opens = <<>> /\ tagres.seeks = <<>> /\ tagres.reads = <<>>
        ELSE /\ tagres.opens = <<Path>>
             /\ tagres.reads = <<[at |-> U32At(tagres.field, 0),
                                  len |-> tagres.valsize * tagres.valcount]>>

\* C8 as stated: when the decoding of a tag fails, open() returns that
\* error and no image.
C8_Claim ==
    pc = "done" /\ tag_failed => result.kind \in {"Io", "TypeError"}

====
